---- MODULE Spec2Model ----
(***************************************************************************)
(* A model of reggie's exact GP inference (reggie/models/gp.py) and of its *)
(* Matern kernel (reggie/kernels/matern.py).                               *)
(*                                                                         *)
(* Arithmetic.  numpy's float64 values are modelled in two ways:           *)
(*   - kernel VALUES are fixed-point integers with FixOne = 1.0;           *)
(*   - kernel DERIVATIVES are float classes ("zero", "pos", "neg", "nan",  *)
(*     "inf", "ninf"), which is what decides whether an entry is exactly 0 *)
(*     or NaN.                                                             *)
(* A coordinate is a two-scale fixed-point number g + e * 1e-13: g counts  *)
(* grid units and e counts units of 1e-13, so that points closer than      *)
(* 1e-12 exist next to points at ordinary distances.                       *)
(***************************************************************************)
EXTENDS Integers, Sequences, FiniteSets, TLC

VARIABLES
    kobj,   \* SpecKernel: the last Matern(...) construction (arguments and object)
    kres,   \* SpecKernel: the result of the last call on that kernel
    kern,   \* GP._kern
    sn2,    \* GP._like._sn2
    bias,   \* GP._mean (Constant): its bias
    X,      \* Model._X, the training inputs
    Y,      \* Model._Y, the training targets
    L,      \* GP._L
    a,      \* GP._a
    last,   \* SpecGP: the last call on the GP and what it returned or raised
    bres    \* SpecBasic: the outcome of the last BasicGP(...) construction

vars == <<kobj, kres, kern, sn2, bias, X, Y, L, a, last, bres>>

None == [none |-> TRUE]
Some(v) == [some |-> v]

(***************************************************************************)
(* Bounds of the model.                                                    *)
(***************************************************************************)
\* the largest training set
MaxData == 3
\* the sizes of the batch one add_data call attaches
BatchSizes == {1, 2}
\* input dimensions
DimValues == {1, 2}
\* lengthscales and amplitudes the model draws from
EllValues == {1, 2}
RhoValues == {1, 2}
\* grid parts and 1e-13 parts of a coordinate
GridValues == {0, 1}
TinyValues == {0, 6, 12}
\* smoothness arguments tried at construction (valid and invalid)
DValues == {1, 2, 3, 4, 5}

\* every rescaled coordinate x / ell is kept as the integer x * EllScale / ell
EllScale ==
    CHOOSE m \in 1..4 :
        /\ \A l \in EllValues : m % l = 0
        /\ \A k \in 1..(m - 1) : \E l \in EllValues : k % l # 0

(***************************************************************************)
(* Float classes: the sign, zero, NaN and infinities of a float64.         *)
(* Within the bounds every magnitude lies between 1e-26 and 1e3, so no     *)
(* product of non-zero values underflows to zero or overflows.             *)
(***************************************************************************)
FloatClass == {"zero", "pos", "neg", "nan", "inf", "ninf"}

ClassOf(n) == IF n = 0 THEN "zero" ELSE IF n > 0 THEN "pos" ELSE "neg"

FIsNeg(c) == c \in {"neg", "ninf"}
FIsInf(c) == c \in {"inf", "ninf"}

FNeg(c) ==
    CASE c = "pos" -> "neg"
      [] c = "neg" -> "pos"
      [] c = "inf" -> "ninf"
      [] c = "ninf" -> "inf"
      [] OTHER -> c

FMul(x, y) ==
    IF x = "nan" \/ y = "nan" THEN "nan"
    ELSE IF (x = "zero" /\ FIsInf(y)) \/ (FIsInf(x) /\ y = "zero") THEN "nan"
    ELSE IF x = "zero" \/ y = "zero" THEN "zero"
    ELSE LET neg == FIsNeg(x) # FIsNeg(y)
         IN IF FIsInf(x) \/ FIsInf(y)
            THEN (IF neg THEN "ninf" ELSE "inf")
            ELSE (IF neg THEN "neg" ELSE "pos")

FDiv(x, y) ==
    IF x = "nan" \/ y = "nan" THEN "nan"
    ELSE IF y = "zero"
         THEN (IF x = "zero" THEN "nan"
               ELSE IF FIsNeg(x) THEN "ninf" ELSE "inf")
    ELSE IF FIsInf(y)
         THEN (IF FIsInf(x) THEN "nan" ELSE "zero")
    ELSE IF x = "zero" THEN "zero"
    ELSE LET neg == FIsNeg(x) # FIsNeg(y)
         IN IF FIsInf(x)
            THEN (IF neg THEN "ninf" ELSE "inf")
            ELSE (IF neg THEN "neg" ELSE "pos")

\* 1 + r for r >= 0
FOnePlus(r) == IF r \in {"zero", "pos"} THEN "pos" ELSE IF r = "inf" THEN "inf" ELSE "nan"

(***************************************************************************)
(* Fixed point.                                                            *)
(***************************************************************************)
\* round(100 * exp(-q/4)) for q = 0, 1, 2, ...: exp(-D) at D = q/4
ExpTable == <<100, 78, 61, 47, 37, 29, 22, 17, 14, 11, 8, 6, 5, 4, 3, 2, 2>>
FixOne == ExpTable[1]
Exp(q) == IF q < Len(ExpTable) THEN ExpTable[q + 1] ELSE 0

Isqrt(n) == CHOOSE r \in 0..n : r * r <= n /\ (r + 1) * (r + 1) > n

\* 1e-12 in units of 1e-13: the threshold of get_grad and get_gradx
EpsUnits == 10

RECURSIVE SumSeq(_)
SumSeq(s) == IF s = <<>> THEN 0 ELSE s[1] + SumSeq(Tail(s))

(***************************************************************************)
(* Points.                                                                 *)
(***************************************************************************)
Coord(gs, es) == [g : gs, e : es]
PointsOf(n, gs, es) == [1..n -> Coord(gs, es)]

(***************************************************************************)
(* reggie/kernels/_distances.py                                            *)
(***************************************************************************)
\* ell broadcast against column i (numpy broadcasting of a size-1 ell)
EllAt(ell, i) == IF Len(ell) = 1 THEN ell[1] ELSE ell[i]

\* rescale: every point divided elementwise by ell; values are kept times EllScale
rescale(ell, X1) ==
    [n \in 1..Len(X1) |->
        [i \in 1..Len(X1[n]) |->
            [g |-> (X1[n][i].g * EllScale) \div EllAt(ell, i),
             e |-> (X1[n][i].e * EllScale) \div EllAt(ell, i)]]]

\* diff: the signed coordinate differences of two (rescaled) points
diff(p, q) == [i \in 1..Len(p) |-> [g |-> p[i].g - q[i].g, e |-> p[i].e - q[i].e]]

\* the squared euclidean length of a difference vector, at both scales
SqLen(dv) ==
    [g |-> SumSeq([i \in 1..Len(dv) |-> dv[i].g * dv[i].g]),
     e |-> SumSeq([i \in 1..Len(dv) |-> dv[i].e * dv[i].e])]

\* dist(X1, X2, 'euclidean'): the matrix of distances; an entry D is kept as D^2
dist(X1, X2) ==
    [n \in 1..Len(X1) |-> [m \in 1..Len(X2) |-> SqLen(diff(X1[n], X2[m]))]]

\* dist_foreach(X1, X2): one matrix of squared distances per column of X1
dist_foreach(X1, X2) ==
    [i \in 1..(IF X1 = <<>> THEN 0 ELSE Len(X1[1])) |->
        [n \in 1..Len(X1) |-> [m \in 1..Len(X2) |->
            SqLen(<<diff(X1[n], X2[m])[i]>>)]]]

\* a distance as a float class, in quarter grid units, and against 1e-12
DClass(D) == IF D.g = 0 /\ D.e = 0 THEN "zero" ELSE "pos"
DFix(D) == Isqrt((16 * D.g) \div (EllScale * EllScale))
DBelowEps(D) == D.g = 0 /\ D.e < (EpsUnits * EllScale) * (EpsUnits * EllScale)

\* the class of one signed coordinate difference
DiffClass(c) == IF c.g # 0 THEN ClassOf(c.g) ELSE ClassOf(c.e)

(***************************************************************************)
(* reggie/kernels/matern.py                                                *)
(***************************************************************************)
\* a bug the construction claim must detect: validating d after registering
Matern__init__LateCheck(rho, ell, d, ndim) ==
    LET iso == ndim # None
        params == <<[name |-> "rho", shape |-> "scalar", size |-> 1],
                    [name |-> "ell", shape |-> IF iso THEN "scalar" ELSE "d",
                     size |-> IF iso THEN 1 ELSE Len(ell)]>>
    IN  IF d \notin {1, 3, 5}
        THEN [ell |-> Some(ell), rho |-> Some(rho),
              d |-> None, ndim |-> None, iso |-> None,
              params |-> params, raised |-> TRUE, err |-> "d must be one of 1, 3, or 5"]
        ELSE [ell |-> Some(ell), rho |-> Some(rho),
              d |-> Some(d), ndim |-> Some(IF iso THEN ndim.some ELSE Len(ell)), iso |-> Some(iso),
              params |-> params, raised |-> FALSE,
              err |-> ""]

\* Matern.__init__: the instance it leaves behind (raised: the exception escaped)
Matern__init__(rho, ell, d, ndim) ==
    IF d \notin {1, 3, 5}
    THEN [ell |-> None, rho |-> None,
          d |-> None, ndim |-> None, iso |-> None,
          params |-> <<>>, raised |-> TRUE, err |-> "d must be one of 1, 3, or 5"]
    ELSE LET \* shape = ('d',) if (ndim is None) else ()
             shape == IF ndim = None THEN "d" ELSE "scalar"
             \* _register('rho', ...), then _register('ell', ..., shape=shape)
             params == <<[name |-> "rho", shape |-> "scalar", size |-> 1],
                         [name |-> "ell", shape |-> shape,
                          size |-> IF shape = "d" THEN Len(ell) ELSE 1]>>
             iso == ndim # None
         IN  [ell |-> Some(ell), rho |-> Some(rho),
              d |-> Some(d), ndim |-> Some(IF iso THEN ndim.some ELSE Len(ell)), iso |-> Some(iso),
              params |-> params, raised |-> FALSE,
              err |-> ""]

\* Parameterized.nparams of a kernel: the total size of its registered parameters
KernNparams(k) == SumSeq([i \in 1..Len(k.params) |-> k.params[i].size])

\* Matern._f, times 48, at D = q/4
Matern_f(k, q) ==
    IF k.d.some = 1 THEN 48
    ELSE IF k.d.some = 3 THEN 48 + 12 * q
    ELSE 48 + q * (12 + q)

\* Matern._g as a float class
Matern_g(k, r) ==
    IF k.d.some = 1 THEN "pos"
    ELSE IF k.d.some = 3 THEN r
    ELSE FDiv(FMul(r, FOnePlus(r)), "pos")

\* Matern.get_kernel(X1, X2): rho * exp(-D) * f(D), fixed point
get_kernel(k, X1, X2) ==
    LET D == dist(rescale(k.ell.some, X1), rescale(k.ell.some, X2))
    IN  [n \in 1..Len(X1) |-> [m \in 1..Len(X2) |->
            (k.rho.some * Exp(DFix(D[n][m])) * Matern_f(k, DFix(D[n][m]))) \div 48]]

\* Matern.get_dkernel(X1): np.full(len(X1), rho)
get_dkernel(k, X1) == [n \in 1..Len(X1) |-> k.rho.some * FixOne]

\* a bug the near-duplicate claim must detect: the ARD branch without np.where
get_gradNoWhere(k, X1, X2) ==
    LET R1 == rescale(k.ell.some, X1)
        R2 == rescale(k.ell.some, X2)
        D == dist(R1, R2)
        Mat(f(_, _)) == [n \in 1..Len(X1) |-> [m \in 1..Len(X2) |-> f(n, m)]]
        S(n, m) == FMul("pos", ClassOf(Matern_f(k, DFix(D[n][m]))))
        M(n, m) == FMul(FMul("pos", "pos"), Matern_g(k, DClass(D[n][m])))
        Df == dist_foreach(R1, R2)
        G(i, n, m) == FDiv(FDiv(FMul(M(n, m), DClass(Df[i][n][m])), DClass(D[n][m])), "pos")
    IN  <<[wrt |-> "rho", idx |-> 0, val |-> Mat(S)]>>
        \o (IF k.iso.some
            THEN <<[wrt |-> "ell", idx |-> 0,
                    val |-> Mat(LAMBDA n, m : FDiv(FMul(M(n, m), DClass(D[n][m])), "pos"))]>>
            ELSE [i \in 1..Len(Df) |->
                    [wrt |-> "ell", idx |-> i, val |-> Mat(LAMBDA n, m : G(i, n, m))]])

\* Matern.get_grad(X1, X2): the matrices it yields, in order.  wrt and idx say
\* which parameter the entry differentiates (the code's comments).
get_grad(k, X1, X2) ==
    LET R1 == rescale(k.ell.some, X1)
        R2 == rescale(k.ell.some, X2)
        D == dist(R1, R2)
        Mat(f(_, _)) == [n \in 1..Len(X1) |-> [m \in 1..Len(X2) |-> f(n, m)]]
        \* E = exp(-D) > 0; S = E * f(D); M = rho * E * g(D)
        S(n, m) == FMul("pos", ClassOf(Matern_f(k, DFix(D[n][m]))))
        M(n, m) == FMul(FMul("pos", "pos"), Matern_g(k, DClass(D[n][m])))
        Df == dist_foreach(R1, R2)
        \* G = M * D_ / D / ell[i]
        G(i, n, m) == FDiv(FDiv(FMul(M(n, m), DClass(Df[i][n][m])), DClass(D[n][m])), "pos")
    IN  <<[wrt |-> "rho", idx |-> 0, val |-> Mat(S)]>>
        \o (IF k.iso.some
            THEN \* M * D / ell
                 <<[wrt |-> "ell", idx |-> 0,
                    val |-> Mat(LAMBDA n, m : FDiv(FMul(M(n, m), DClass(D[n][m])), "pos"))]>>
            ELSE \* np.where(D < 1e-12, 0, G) for each column
                 [i \in 1..Len(Df) |->
                    [wrt |-> "ell", idx |-> i,
                     val |-> Mat(LAMBDA n, m :
                                IF DBelowEps(D[n][m]) THEN "zero" ELSE G(i, n, m))]])

\* a bug the gradient-shape claim must detect: one vector of zeros too many
get_dgradOffByOne(k, X1) ==
    <<[n \in 1..Len(X1) |-> "pos"]>>
    \o [j \in 1..KernNparams(k) |-> [n \in 1..Len(X1) |-> "zero"]]

\* Matern.get_dgrad(X1): ones, then nparams-1 vectors of zeros
get_dgrad(k, X1) ==
    <<[n \in 1..Len(X1) |-> "pos"]>>
    \o [j \in 1..(KernNparams(k) - 1) |-> [n \in 1..Len(X1) |-> "zero"]]

\* Matern.get_gradx(X1, X2): G[n][m][i], the derivative wrt coordinate i of X1[n]
get_gradx(k, X1, X2) ==
    LET R1 == rescale(k.ell.some, X1)
        R2 == rescale(k.ell.some, X2)
    IN  [n \in 1..Len(X1) |-> [m \in 1..Len(X2) |->
            LET D1 == diff(R1[n], R2[m])
                D == SqLen(D1)
                \* S = rho * exp(-D); M = np.where(D < 1e-12, 0, S * g(D) / D)
                M == IF DBelowEps(D) THEN "zero"
                     ELSE FDiv(FMul("pos", Matern_g(k, DClass(D))), DClass(D))
            IN  [i \in 1..Len(D1) |-> FDiv(FMul(FNeg(M), DiffClass(D1[i])), "pos")]]]

(***************************************************************************)
(* The collaborators of the engine: the Constant mean, the Gaussian        *)
(* likelihood, the parameter registry and the linear algebra backend.      *)
(***************************************************************************)
\* Constant.get_function(X): the bias at every point
mean_get_function(b, X1) == [n \in 1..Len(X1) |-> b]

\* the flattened parameter vector of a kernel, in registration order: a scalar
\* parameter is one entry (idx 0), a vector parameter one entry per component
KernParamNames(k) ==
    LET Flat(pr) == IF pr.shape = "scalar"
                    THEN <<[wrt |-> pr.name, idx |-> 0]>>
                    ELSE [i \in 1..pr.size |-> [wrt |-> pr.name, idx |-> i]]
        RECURSIVE Cat(_)
        Cat(ps) == IF ps = <<>> THEN <<>> ELSE Flat(ps[1]) \o Cat(Tail(ps))
    IN  Cat(k.params)

\* the flattened parameter vector of GP(like, kern, mean): like, kern, mean
GPParamNames(k) ==
    <<[wrt |-> "like.sn2", idx |-> 0]>>
    \o [i \in 1..Len(KernParamNames(k)) |->
            [wrt |-> "kern." \o KernParamNames(k)[i].wrt, idx |-> KernParamNames(k)[i].idx]]
    \o <<[wrt |-> "mean.bias", idx |-> 0]>>

\* Model.nparams
GPNparams(k) == Len(GPParamNames(k))

\* linalg.add_diagonal(M, v)
add_diagonal(M, v) ==
    [i \in 1..Len(M) |-> [j \in 1..Len(M[i]) |-> IF i = j THEN M[i][j] + v ELSE M[i][j]]]

Minor(M, i, j) ==
    [r \in 1..(Len(M) - 1) |-> [c \in 1..(Len(M) - 1) |->
        M[IF r < i THEN r ELSE r + 1][IF c < j THEN c ELSE c + 1]]]

RECURSIVE Det(_)
Det(M) ==
    IF Len(M) = 0 THEN 1
    ELSE IF Len(M) = 1 THEN M[1][1]
    ELSE SumSeq([j \in 1..Len(M) |->
            (IF j % 2 = 1 THEN 1 ELSE -1) * M[1][j] * Det(Minor(M, 1, j))])

\* positive definite: every leading principal minor is positive
IsPosDef(M) ==
    \A n \in 1..Len(M) : Det([i \in 1..n |-> [j \in 1..n |-> M[i][j]]]) > 0

\* the outcome of a backend call that raised
Raised == [raised |-> TRUE]

\* linalg.cholesky(M): the lower factor of M, which is unique, so the factor is
\* kept as the matrix it factors; raises when M is not positive definite
cholesky(M) == IF IsPosDef(M) THEN [of |-> M] ELSE Raised

\* linalg.solve_triangular(L, r): the solution of L a = r, kept as the pair
solve_triangular(Lf, r) == [fac |-> Lf.of, rhs |-> r]

\* linalg.cholesky_update(L, B, C, a, r): the factor of [[K, B^T], [B, C]] and the
\* whitened residual extended by r; raises on None, on shapes that do not fit
\* and when the extended matrix is not positive definite
cholesky_update(Lf, B, C, af, r) ==
    IF Lf = None \/ af = None THEN Raised
    ELSE LET n == Len(Lf.of)
             m == Len(C)
             block == [i \in 1..(n + m) |-> [j \in 1..(n + m) |->
                         IF i <= n /\ j <= n THEN Lf.of[i][j]
                         ELSE IF i > n /\ j <= n THEN B[i - n][j]
                         ELSE IF i <= n /\ j > n THEN B[j - n][i]
                         ELSE C[i - n][j - n]]]
         IN  IF \/ Len(B) # m
                \/ \E i \in 1..Len(B) : Len(B[i]) # n
                \/ Len(af.rhs) # n \/ Len(r) # m
             THEN Raised
             ELSE IF ~IsPosDef(block) THEN Raised
             ELSE [L |-> [of |-> block],
                   a |-> [fac |-> block, rhs |-> af.rhs \o r],
                   raised |-> FALSE]

(***************************************************************************)
(* reggie/models/gp.py.  self is the record of the instance's fields; a    *)
(* method gives the instance it leaves behind, whether it raised, which of *)
(* the cached fields it read, and what it returned.                        *)
(***************************************************************************)
Self == [kern |-> kern, sn2 |-> sn2, bias |-> bias, X |-> X, Y |-> Y, L |-> L, a |-> a]

ndata(self) == Len(self.X)

\* GP.__init__(like, kern, mean)
GP__init__(s, k, b) ==
    [kern |-> k, sn2 |-> s, bias |-> b, X |-> <<>>, Y |-> <<>>, L |-> None, a |-> None]

\* GP._update()
GP_update(self) ==
    IF ndata(self) > 0
    THEN LET K == add_diagonal(get_kernel(self.kern, self.X, self.X), self.sn2)
             mu == mean_get_function(self.bias, self.X)
             r == [n \in 1..Len(self.Y) |-> self.Y[n] - mu[n]]
             Lf == cholesky(K)
         IN  IF Lf = Raised
             THEN [raised |-> TRUE, self |-> self]
             ELSE [raised |-> FALSE,
                   self |-> [self EXCEPT !.L = Lf, !.a = solve_triangular(Lf, r)]]
    ELSE [raised |-> FALSE, self |-> self]

\* a bug the refit-equivalence claim must detect: C without the noise on its diagonal
GP_updateincNoNoise(self, Xn, Yn) ==
    LET B == get_kernel(self.kern, Xn, self.X)
        C == get_kernel(self.kern, Xn, Xn)
        mu == mean_get_function(self.bias, Xn)
        r == [n \in 1..Len(Yn) |-> Yn[n] - mu[n]]
        u == cholesky_update(self.L, B, C, self.a, r)
    IN  IF u = Raised
        THEN [raised |-> TRUE, self |-> self]
        ELSE [raised |-> FALSE, self |-> [self EXCEPT !.L = u.L, !.a = u.a]]

\* GP._updateinc(X, Y)
GP_updateinc(self, Xn, Yn) ==
    LET B == get_kernel(self.kern, Xn, self.X)
        C == add_diagonal(get_kernel(self.kern, Xn, Xn), self.sn2)
        mu == mean_get_function(self.bias, Xn)
        r == [n \in 1..Len(Yn) |-> Yn[n] - mu[n]]
        u == cholesky_update(self.L, B, C, self.a, r)
    IN  IF u = Raised
        THEN [raised |-> TRUE, self |-> self]
        ELSE [raised |-> FALSE, self |-> [self EXCEPT !.L = u.L, !.a = u.a]]

\* Model.add_data(X, Y): the first batch is stored and _update() refits; a later
\* batch goes through _updateinc(X, Y), which reads the old self._X, and is
\* then appended
Model_add_data(self, Xn, Yn) ==
    IF ndata(self) = 0
    THEN GP_update([self EXCEPT !.X = Xn, !.Y = Yn])
    ELSE LET u == GP_updateinc(self, Xn, Yn)
         IN  IF u.raised THEN u
             ELSE [raised |-> FALSE,
                   self |-> [u.self EXCEPT !.X = self.X \o Xn, !.Y = self.Y \o Yn]]

\* Model.reset(): the data are discarded and _update() refits
Model_reset(self) == GP_update([self EXCEPT !.X = <<>>, !.Y = <<>>])

\* Constant.get_grad(X): one vector of ones, for the bias
mean_get_grad(X1) == <<[n \in 1..Len(X1) |-> "pos"]>>

\* the cache can be used against the current data: it is there and has their size
CacheUsable(self) ==
    self.L # None /\ self.a # None /\ Len(self.L.of) = ndata(self)

\* an exact 0.0
Zero == [val |-> 0]

\* a bug the empty-loglike claim must detect: the pair whatever grad is
GP_get_loglikeAlwaysPair(self, grad) ==
    IF ndata(self) = 0
    THEN [raised |-> FALSE, self |-> self, reads |-> {},
          ret |-> [kind |-> "pair", lZ |-> Zero,
                   dlZ |-> [i \in 1..GPNparams(self.kern) |->
                               [wrt |-> "", idx |-> 0, zero |-> TRUE]]]]
    ELSE IF self.a = None \/ self.L = None
    THEN [raised |-> TRUE, self |-> self, reads |-> {"a"}, ret |-> None]
    ELSE LET lZ == [L |-> self.L, a |-> self.a, n |-> ndata(self)]
         IN  IF ~grad
             THEN [raised |-> FALSE, self |-> self, reads |-> {"L", "a"},
                   ret |-> [kind |-> "scalar", lZ |-> lZ]]
             ELSE IF Len(self.L.of) # ndata(self)
             THEN [raised |-> TRUE, self |-> self, reads |-> {"L", "a"}, ret |-> None]
             ELSE LET dK == get_grad(self.kern, self.X, self.X)
                      dmu == mean_get_grad(self.X)
                  IN  [raised |-> FALSE, self |-> self, reads |-> {"L", "a"},
                       ret |-> [kind |-> "pair", lZ |-> lZ,
                                dlZ |->
                                    <<[wrt |-> "like.sn2", idx |-> 0, zero |-> FALSE]>>
                                    \o [i \in 1..Len(dK) |->
                                          [wrt |-> "kern." \o dK[i].wrt,
                                           idx |-> dK[i].idx, zero |-> FALSE]]
                                    \o [i \in 1..Len(dmu) |->
                                          [wrt |-> "mean.bias", idx |-> 0, zero |-> FALSE]]]]

\* GP.get_loglike(grad)
GP_get_loglike(self, grad) ==
    IF ndata(self) = 0
    THEN [raised |-> FALSE, self |-> self, reads |-> {},
          ret |-> IF grad
                  THEN [kind |-> "pair", lZ |-> Zero,
                        dlZ |-> [i \in 1..GPNparams(self.kern) |->
                                    [wrt |-> "", idx |-> 0, zero |-> TRUE]]]
                  ELSE [kind |-> "scalar", lZ |-> Zero]]
    ELSE IF self.a = None \/ self.L = None
    THEN \* np.inner(None, None) and None.diagonal() raise
         [raised |-> TRUE, self |-> self, reads |-> {"a"}, ret |-> None]
    ELSE LET lZ == [L |-> self.L, a |-> self.a, n |-> ndata(self)]
         IN  IF ~grad
             THEN [raised |-> FALSE, self |-> self, reads |-> {"L", "a"},
                   ret |-> [kind |-> "scalar", lZ |-> lZ]]
             ELSE IF Len(self.L.of) # ndata(self)
             THEN \* Q and alpha have the cache's size, dK and dmu the data's
                  [raised |-> TRUE, self |-> self, reads |-> {"L", "a"}, ret |-> None]
             ELSE LET dK == get_grad(self.kern, self.X, self.X)
                      dmu == mean_get_grad(self.X)
                  IN  [raised |-> FALSE, self |-> self, reads |-> {"L", "a"},
                       ret |-> [kind |-> "pair", lZ |-> lZ,
                                dlZ |->
                                    \* derivative wrt the likelihood's noise term
                                    <<[wrt |-> "like.sn2", idx |-> 0, zero |-> FALSE]>>
                                    \* derivative wrt each kernel hyperparameter
                                    \o [i \in 1..Len(dK) |->
                                          [wrt |-> "kern." \o dK[i].wrt,
                                           idx |-> dK[i].idx, zero |-> FALSE]]
                                    \* derivative wrt the mean
                                    \o [i \in 1..Len(dmu) |->
                                          [wrt |-> "mean.bias", idx |-> 0, zero |-> FALSE]]]]

\* the posterior correction of a prior quantity: what it is computed from
Correction(self, Xq) ==
    [L |-> self.L, a |-> self.a, K |-> get_kernel(self.kern, self.X, Xq)]

\* a bug the frame claim must detect: sample keeping its factor in self._L
GP_sampleWritesL(self, Xq, size, latent) ==
    LET mu == mean_get_function(self.bias, Xq)
        Sigma == get_kernel(self.kern, Xq, Xq)
        shape == IF size = None THEN <<Len(Xq)>> ELSE <<size.some, Len(Xq)>>
        noise == IF latent THEN None ELSE Some(self.sn2)
        kept == [self EXCEPT !.L = [of |-> Sigma]]
    IN  IF ndata(self) > 0
        THEN IF ~CacheUsable(self)
             THEN [raised |-> TRUE, self |-> self, reads |-> {"L"}, ret |-> None]
             ELSE [raised |-> FALSE, self |-> kept, reads |-> {"L", "a"},
                   ret |-> [shape |-> shape, mu |-> [prior |-> mu, corr |-> Correction(self, Xq)], kind |-> "sample",
                            Sigma |-> [prior |-> Sigma, corr |-> Correction(self, Xq)],
                            noise |-> noise]]
        ELSE [raised |-> FALSE, self |-> kept, reads |-> {},
              ret |-> [shape |-> shape, mu |-> [prior |-> mu, corr |-> None], kind |-> "sample",
                       Sigma |-> [prior |-> Sigma, corr |-> None],
                       noise |-> noise]]

\* GP.sample(X, size, latent, rng): the normal distribution it draws from (the
\* factorization of a positive semi-definite Sigma plus the 1e-10 jitter
\* succeeds), the shape of what it returns and the noise it adds
GP_sample(self, Xq, size, latent) ==
    LET mu == mean_get_function(self.bias, Xq)
        Sigma == get_kernel(self.kern, Xq, Xq)
        shape == IF size = None THEN <<Len(Xq)>> ELSE <<size.some, Len(Xq)>>
        noise == IF latent THEN None ELSE Some(self.sn2)
    IN  IF ndata(self) > 0
        THEN IF ~CacheUsable(self)
             THEN [raised |-> TRUE, self |-> self, reads |-> {"L"}, ret |-> None]
             ELSE [raised |-> FALSE, self |-> self, reads |-> {"L", "a"},
                   ret |-> [shape |-> shape, mu |-> [prior |-> mu, corr |-> Correction(self, Xq)], kind |-> "sample",
                            Sigma |-> [prior |-> Sigma, corr |-> Correction(self, Xq)],
                            noise |-> noise]]
        ELSE [raised |-> FALSE, self |-> self, reads |-> {},
              ret |-> [shape |-> shape, mu |-> [prior |-> mu, corr |-> None], kind |-> "sample",
                       Sigma |-> [prior |-> Sigma, corr |-> None],
                       noise |-> noise]]

\* np.zeros_like(X)
zeros_like(X1) == [n \in 1..Len(X1) |-> [i \in 1..Len(X1[n]) |-> 0]]

\* a bug the empty-state claim must detect: the posterior correction applied
\* without the ndata > 0 guard
GP_get_posteriorNoGuard(self, Xq, grad) ==
    LET mu == mean_get_function(self.bias, Xq)
        s2 == get_dkernel(self.kern, Xq)
        dmu == zeros_like(Xq)
        ds2 == zeros_like(Xq)
        corr == Correction(self, Xq)
        dcorr == [L |-> self.L, a |-> self.a, dK |-> get_gradx(self.kern, Xq, self.X)]
    IN  IF ~CacheUsable(self)
        THEN [raised |-> TRUE, self |-> self, reads |-> {"L"}, ret |-> None]
        ELSE [raised |-> FALSE, self |-> self,
              reads |-> {"L", "a"},
              ret |-> IF ~grad
                      THEN [mu |-> [prior |-> mu, corr |-> corr],
                            kind |-> "posterior",
                            dmu |-> None,
                            s2 |-> [prior |-> s2, corr |-> corr], ds2 |-> None]
                      ELSE [mu |-> [prior |-> mu, corr |-> corr],
                            kind |-> "posterior",
                            dmu |-> [prior |-> dmu, corr |-> dcorr],
                            s2 |-> [prior |-> s2, corr |-> corr],
                            ds2 |-> [prior |-> ds2, corr |-> dcorr]]]

\* GP.get_posterior(X, grad)
GP_get_posterior(self, Xq, grad) ==
    LET mu == mean_get_function(self.bias, Xq)
        s2 == get_dkernel(self.kern, Xq)
        \* the Constant mean has no get_gradx
        dmu == zeros_like(Xq)
        ds2 == zeros_like(Xq)
        fitted == ndata(self) > 0
        corr == IF fitted THEN Correction(self, Xq) ELSE None
        dcorr == IF fitted
                 THEN [L |-> self.L, a |-> self.a, dK |-> get_gradx(self.kern, Xq, self.X)]
                 ELSE None
    IN  IF fitted /\ ~CacheUsable(self)
        THEN [raised |-> TRUE, self |-> self, reads |-> {"L"}, ret |-> None]
        ELSE [raised |-> FALSE, self |-> self,
              reads |-> IF fitted THEN {"L", "a"} ELSE {},
              ret |-> IF ~grad
                      THEN [mu |-> [prior |-> mu, corr |-> corr],
                            kind |-> "posterior",
                            dmu |-> None,
                            s2 |-> [prior |-> s2, corr |-> corr], ds2 |-> None]
                      ELSE [mu |-> [prior |-> mu, corr |-> corr],
                            kind |-> "posterior",
                            dmu |-> [prior |-> dmu, corr |-> dcorr],
                            s2 |-> [prior |-> s2, corr |-> corr],
                            ds2 |-> [prior |-> ds2, corr |-> dcorr]]]

(***************************************************************************)
(* SpecGP: a GP is constructed from a Gaussian likelihood, a Matern kernel *)
(* and a Constant mean; data are attached and discarded and the model is   *)
(* queried.                                                                *)
(***************************************************************************)
\* noise variances in fixed point: 0 is a positive noise below the resolution
NoiseValues == {0, 10}
BiasValues == {1}
YValues == {0, 3}

\* every kernel: each smoothness, isotropic and ARD, each dimension
AllKernels ==
    {Matern__init__(1, <<2>>, d, Some(n)) : d \in {1, 3, 5}, n \in DimValues}
    \cup {Matern__init__(1, [i \in 1..n |-> i], d, None) : d \in {1, 3, 5}, n \in DimValues}

\* the kernels SpecGP fits: each smoothness, each mode and each dimension occurs
GPKernels ==
    {Matern__init__(1, <<2>>, 1, Some(1)),
     Matern__init__(1, <<1, 2>>, 3, None),
     Matern__init__(1, <<2>>, 5, Some(2))}

\* training and query inputs of a kernel's dimension: the origin and the point
\* with every coordinate 1
TrainPoints(k) ==
    {[i \in 1..k.ndim.some |-> [g |-> v, e |-> 0]] : v \in GridValues}
Batches(k) ==
    UNION {[1..n -> TrainPoints(k) \X YValues] : n \in BatchSizes}
QueryBatch(k) == <<[i \in 1..k.ndim.some |-> [g |-> 0, e |-> 0]],
                   [i \in 1..k.ndim.some |-> [g |-> 1, e |-> 0]]>>

KIdle == kobj = None /\ kres = None

\* GP(Gaussian(sn2), kern, Constant(bias)) for a kernel of ks
Constructed(ks) ==
    /\ KIdle /\ bres = None
    /\ \E k \in ks, s \in NoiseValues, b \in BiasValues :
        LET self == GP__init__(s, k, b)
        IN  /\ kern = self.kern /\ sn2 = self.sn2 /\ bias = self.bias
            /\ X = self.X /\ Y = self.Y /\ L = self.L /\ a = self.a
    /\ last = None

GInit == Constructed(GPKernels)

\* the instance a call leaves behind, and the record of the call
Becomes(r, op, args) ==
    /\ kern' = r.self.kern /\ sn2' = r.self.sn2 /\ bias' = r.self.bias
    /\ X' = r.self.X /\ Y' = r.self.Y /\ L' = r.self.L /\ a' = r.self.a
    /\ last' = [raised |-> r.raised, reads |-> r.reads, ret |-> r.ret,
                op |-> op, args |-> args]
    /\ UNCHANGED <<kobj, kres, bres>>

\* model.add_data(X, Y)
AddData ==
    \E bt \in Batches(kern) :
        LET Xn == [i \in 1..Len(bt) |-> bt[i][1]]
            Yn == [i \in 1..Len(bt) |-> bt[i][2]]
            r == Model_add_data(Self, Xn, Yn)
        IN  /\ Len(X) + Len(bt) <= MaxData
            /\ Becomes([raised |-> r.raised, self |-> r.self, reads |-> {}, ret |-> None],
                       "add_data",
                       [grad |-> FALSE,
                        via |-> IF Len(X) = 0 THEN "_update" ELSE "_updateinc"])

\* model.reset()
Reset ==
    LET r == Model_reset(Self)
    IN  /\ Len(X) > 0
        /\ Becomes([raised |-> r.raised, self |-> r.self, reads |-> {}, ret |-> None],
                   "reset", [grad |-> FALSE, via |-> "_update"])

\* model.get_loglike(grad)
GetLoglike ==
    \E grad \in BOOLEAN :
        Becomes(GP_get_loglike(Self, grad), "get_loglike", [grad |-> grad, via |-> ""])

\* model.sample(X, size, latent)
Sample ==
    \E size \in {None, Some(2)}, latent \in BOOLEAN :
        Becomes(GP_sample(Self, QueryBatch(kern), size, latent), "sample",
                [grad |-> FALSE, via |-> ""])

\* model.get_posterior(X, grad)
GetPosterior ==
    \E grad \in BOOLEAN :
        Becomes(GP_get_posterior(Self, QueryBatch(kern), grad), "get_posterior",
                [grad |-> grad, via |-> ""])

\* model._kern.get_grad(X) on the training inputs
KernGetGrad ==
    /\ Len(X) > 0
    /\ Becomes([raised |-> FALSE, self |-> Self, reads |-> {},
                ret |-> [kind |-> "kern.get_grad",
                         out |-> LET g == get_grad(kern, X, X)
                                 IN  [i \in 1..Len(g) |-> [wrt |-> g[i].wrt, idx |-> g[i].idx]]]],
               "kern.get_grad", [grad |-> TRUE, via |-> ""])

\* model._kern.get_dgrad(X) on the training inputs
KernGetDgrad ==
    /\ Len(X) > 0
    /\ Becomes([raised |-> FALSE, self |-> Self, reads |-> {},
                ret |-> [kind |-> "kern.get_dgrad", out |-> get_dgrad(kern, X)]],
               "kern.get_dgrad", [grad |-> TRUE, via |-> ""])

GNext ==
    \/ AddData \/ Reset
    \/ GetLoglike \/ Sample \/ GetPosterior
    \/ KernGetGrad \/ KernGetDgrad

SpecGP == GInit /\ [][GNext]_vars

(***************************************************************************)
(* SpecGrad: a GP over any kernel is given its first batch of data and its *)
(* gradients are taken.                                                    *)
(***************************************************************************)
GradInit == Constructed(AllKernels)

FirstData == Len(X) = 0 /\ AddData

GradNext == FirstData \/ GetLoglike \/ KernGetGrad \/ KernGetDgrad

SpecGrad == GradInit /\ [][GradNext]_vars

(***************************************************************************)
(* SpecKernel: a Matern kernel is constructed and then queried on a pair   *)
(* of points.                                                              *)
(***************************************************************************)
GPIdle ==
    /\ kern = None /\ sn2 = 0 /\ bias = 0
    /\ X = <<>> /\ Y = <<>> /\ L = None /\ a = None /\ last = None
GPUnchanged == UNCHANGED <<kern, sn2, bias, X, Y, L, a, last>>

\* the (ell, ndim) arguments: a vector ell with ndim omitted, or a scalar ell with ndim
EllArgs ==
    {[ell |-> e, ndim |-> None] :
        e \in UNION {[1..n -> EllValues] : n \in DimValues}}
    \cup {[ell |-> <<l>>, ndim |-> Some(n)] : l \in EllValues, n \in DimValues}

KInit == kobj = None /\ kres = None /\ GPIdle /\ bres = None

\* Matern(rho, ell, d, ndim); a failed construction may be tried again
NewMatern ==
    /\ IF kobj = None THEN TRUE ELSE kobj.obj.raised
    /\ \E rho \in RhoValues, d \in DValues, ea \in EllArgs :
        /\ kobj' = [ell |-> ea.ell, rho |-> rho, d |-> d, ndim |-> ea.ndim,
                    obj |-> Matern__init__(rho, ea.ell, d, ea.ndim)]
        /\ kres' = None
        /\ GPUnchanged /\ UNCHANGED bres

\* the kernel keeps no state between calls: one call per instance is followed
KReady == kobj # None /\ ~kobj.obj.raised /\ kres = None
KPoints1 == PointsOf(kobj.obj.ndim.some, GridValues, TinyValues)
KPoints2 == PointsOf(kobj.obj.ndim.some, GridValues, {0})

\* kernel.get_grad(X1, X2) and kernel.get_grad(X1) on single points
CallGetGrad ==
    /\ KReady
    /\ \E p \in KPoints1, q \in KPoints2, self \in BOOLEAN :
        LET X2 == IF self THEN <<p>> ELSE <<q>>
        IN  kres' = [X1 |-> <<p>>, X2 |-> X2, op |-> "get_grad",
                     out |-> get_grad(kobj.obj, <<p>>, X2)]
    /\ UNCHANGED kobj /\ GPUnchanged /\ UNCHANGED bres

\* kernel.get_gradx(X1, X2) and kernel.get_gradx(X1) on single points
CallGetGradx ==
    /\ KReady
    /\ \E p \in KPoints1, q \in KPoints2, self \in BOOLEAN :
        LET X2 == IF self THEN <<p>> ELSE <<q>>
        IN  kres' = [X1 |-> <<p>>, X2 |-> X2, op |-> "get_gradx",
                     out |-> get_gradx(kobj.obj, <<p>>, X2)]
    /\ UNCHANGED kobj /\ GPUnchanged /\ UNCHANGED bres

\* kernel.get_dgrad(X1) on a single point
CallGetDgrad ==
    /\ KReady
    /\ \E p \in KPoints1 :
        kres' = [X1 |-> <<p>>, X2 |-> <<p>>, op |-> "get_dgrad",
                 out |-> get_dgrad(kobj.obj, <<p>>)]
    /\ UNCHANGED kobj /\ GPUnchanged /\ UNCHANGED bres

KNext == NewMatern \/ CallGetGrad \/ CallGetGradx \/ CallGetDgrad

SpecKernel == KInit /\ [][KNext]_vars

(***************************************************************************)
(* BasicGP.__init__ (reggie/models/gp.py) and SpecBasic, which constructs  *)
(* BasicGP instances.                                                      *)
(***************************************************************************)
\* kernels.SE(rho, ell, ndim): the squared-exponential kernel, same interface
SE__init__(rho, ell, ndim) ==
    [obj |-> [ell |-> ell, rho |-> rho, ndim |-> ndim], class |-> "SE"]

\* Parameterized._register(name, param, klass), given something that is no klass
\* instance: the registry rejects it, or takes it as it is
RegisterNonInstance == {"rejected", "accepted"}

\* the kernel tags tried: the four valid ones, two unknown strings, and None
KernelTags ==
    {Some(t) : t \in {"se", "matern1", "matern3", "matern5", "matern2", "unknown"}}
    \cup {None}

\* BasicGP.__init__(sn2, rho, ell, mean, ndim, kernel): every outcome
BasicGP__init__(s, rho, ell, b, ndim, kernel) ==
    LET kern0 ==
            IF kernel = Some("se") THEN Some(SE__init__(rho, ell, ndim))
            ELSE IF kernel = Some("matern1")
                 THEN Some([obj |-> Matern__init__(rho, ell, 1, ndim), class |-> "Matern"])
            ELSE IF kernel = Some("matern3")
                 THEN Some([obj |-> Matern__init__(rho, ell, 3, ndim), class |-> "Matern"])
            ELSE IF kernel = Some("matern5")
                 THEN Some([obj |-> Matern__init__(rho, ell, 5, ndim), class |-> "Matern"])
            ELSE None
        names == <<"sn2", "rho", "ell", "mean">>
    IN  \* if kernel is None: raise ValueError('Unknown kernel type')
        IF kernel = None
        THEN {[raised |-> TRUE, err |-> "Unknown kernel type", site |-> "BasicGP.__init__",
               gp |-> None]}
        \* super().__init__(like, kern, mean) registers kern as a Kernel
        ELSE IF kern0 = None
        THEN {IF o = "rejected"
              THEN [raised |-> TRUE, err |-> "kern is no Kernel", site |-> "_register",
                    gp |-> None]
              ELSE [raised |-> FALSE, err |-> "", site |-> "",
                    gp |-> Some([kern |-> kern0, sn2 |-> s, bias |-> b, L |-> None,
                                 a |-> None, names |-> names])]
              : o \in RegisterNonInstance}
        ELSE {[raised |-> FALSE, err |-> "", site |-> "",
               gp |-> Some([kern |-> kern0, sn2 |-> s, bias |-> b, L |-> None,
                            a |-> None, names |-> names])]}

BInit == KIdle /\ GPIdle /\ bres = None

\* BasicGP(sn2, rho, ell, mean, ndim, kernel)
NewBasicGP ==
    \E s \in NoiseValues, rho \in RhoValues, ea \in EllArgs, b \in BiasValues,
       kernel \in KernelTags :
        \E out \in BasicGP__init__(s, rho, ea.ell, b, ea.ndim, kernel) :
            /\ bres' = [ell |-> ea.ell, rho |-> rho, ndim |-> ea.ndim, out |-> out,
                        kernel |-> kernel]
            /\ UNCHANGED <<kobj, kres>> /\ GPUnchanged

SpecBasic == BInit /\ [][NewBasicGP]_vars

ValidTags == {"se", "matern1", "matern3", "matern5"}

(***************************************************************************)
(* C4.  BasicGP with a kernel tag outside 'se', 'matern1', 'matern3',      *)
(* 'matern5' fails with the error 'Unknown kernel type' raised by          *)
(* BasicGP.__init__ itself and yields no instance; each valid tag selects  *)
(* its kernel (SE, or Matern with d = 1, 3, 5) and does not raise.         *)
(***************************************************************************)
C4_UnknownKernelRejected ==
    bres # None =>
        IF bres.kernel \in {Some(t) : t \in ValidTags}
        THEN /\ ~bres.out.raised
             /\ bres.out.gp # None
             /\ LET k == bres.out.gp.some.kern.some
                IN  IF bres.kernel = Some("se") THEN k.class = "SE"
                    ELSE /\ k.class = "Matern"
                         /\ "matern" \o
                              (CASE k.obj.d = Some(1) -> "1"
                                 [] k.obj.d = Some(3) -> "3"
                                 [] k.obj.d = Some(5) -> "5"
                                 [] OTHER -> "?") = bres.kernel.some
        ELSE /\ bres.out.raised
             /\ bres.out.err = "Unknown kernel type"
             /\ bres.out.site = "BasicGP.__init__"
             /\ bres.out.gp = None

(***************************************************************************)
(* Claims about the inference engine.                                      *)
(***************************************************************************)
SelfNext ==
    [kern |-> kern', sn2 |-> sn2', bias |-> bias', X |-> X', Y |-> Y', L |-> L', a |-> a']

\* the cache of self is the one a single _update() over its data produces
IsUpdateOf(self) ==
    /\ ndata(self) > 0
    /\ LET u == GP_update([self EXCEPT !.L = None, !.a = None])
       IN  ~u.raised /\ self.L = u.self.L /\ self.a = u.self.a

QueryOps == {"get_loglike", "sample", "get_posterior"}

(***************************************************************************)
(* C1.  Incremental refit equivalence: when the cache is the one _update   *)
(* produces for the base set and _updateinc(X_new, Y_new) succeeds on an   *)
(* appended batch, the cache (L, a) is the one a single _update produces   *)
(* for the combined set, in the same order.                                *)
(***************************************************************************)
C1_RefitEquivalence ==
    [][(/\ last'.op = "add_data" /\ last'.args.via = "_updateinc" /\ ~last'.raised
        /\ IsUpdateOf(Self))
       => IsUpdateOf(SelfNext)]_vars

\* a batch was appended incrementally, under positive noise, to make three points
C1_Witness ==
    /\ last # None /\ last.op = "add_data" /\ last.args.via = "_updateinc"
    /\ ~last.raised /\ Len(X) = MaxData /\ sn2 > 0 /\ IsUpdateOf(Self)

(***************************************************************************)
(* C2.  In every reachable state L and a are None exactly when             *)
(* ndata = 0, and both are set when ndata > 0.                             *)
(***************************************************************************)
C2_CacheNoneIffEmpty ==
    /\ (L = None) <=> (Len(X) = 0)
    /\ (a = None) <=> (Len(X) = 0)

(***************************************************************************)
(* C3.  After _update or _updateinc returned or raised, L and a were both  *)
(* computed from the same training set, and that set is the current        *)
(* (X, Y).                                                                 *)
(***************************************************************************)
C3_AtomicUpdate ==
    (last # None /\ last.op \in {"add_data", "reset"}) =>
        IF L = None \/ a = None
        THEN L = None /\ a = None /\ Len(X) = 0
        ELSE a.fac = L.of /\ IsUpdateOf(Self)

(***************************************************************************)
(* C6, as claimed.  With ndata = 0, get_loglike returns the pair           *)
(* (0.0, zero vector of length nparams) whatever grad is.                  *)
(***************************************************************************)
C6_Original ==
    (last # None /\ last.op = "get_loglike" /\ Len(X) = 0) =>
        /\ ~last.raised
        /\ last.ret = [kind |-> "pair", lZ |-> Zero,
                       dlZ |-> [i \in 1..GPNparams(kern) |->
                                   [wrt |-> "", idx |-> 0, zero |-> TRUE]]]

(***************************************************************************)
(* C6, amended.  With ndata = 0, get_loglike(grad=True) returns the pair   *)
(* (0.0, zero vector of length nparams) and get_loglike(grad=False)        *)
(* returns the scalar 0.0 alone.                                           *)
(***************************************************************************)
C6_EmptyLoglike ==
    (last # None /\ last.op = "get_loglike" /\ Len(X) = 0) =>
        /\ ~last.raised
        /\ last.ret = IF last.args.grad
                      THEN [kind |-> "pair", lZ |-> Zero,
                            dlZ |-> [i \in 1..GPNparams(kern) |->
                                        [wrt |-> "", idx |-> 0, zero |-> TRUE]]]
                      ELSE [kind |-> "scalar", lZ |-> Zero]

\* get_loglike(grad=False) was called on a model without data
C6_Witness ==
    last # None /\ last.op = "get_loglike" /\ Len(X) = 0 /\ ~last.args.grad

(***************************************************************************)
(* C7.  The gradient get_loglike(grad=True) returns has nparams entries,   *)
(* ordered as the flattened parameter vector: the noise, then the kernel   *)
(* parameters in get_grad order (rho, then one lengthscale entry if        *)
(* isotropic or ndim entries if ARD), then the mean; get_grad yields the   *)
(* kernel's entries in that order and get_dgrad as many, rho first.        *)
(***************************************************************************)
C7_GradientShape ==
    /\ (last # None /\ last.op = "get_loglike" /\ last.args.grad /\ ~last.raised) =>
            /\ Len(last.ret.dlZ) = GPNparams(kern)
            /\ \A i \in 1..Len(last.ret.dlZ) :
                  \/ last.ret.dlZ[i].zero
                  \/ [wrt |-> last.ret.dlZ[i].wrt, idx |-> last.ret.dlZ[i].idx]
                        = GPParamNames(kern)[i]
            /\ Len(X) > 0 => \A i \in 1..Len(last.ret.dlZ) : ~last.ret.dlZ[i].zero
    /\ (last # None /\ last.op = "kern.get_grad") =>
            last.ret.out = KernParamNames(kern)
    /\ (last # None /\ last.op = "kern.get_dgrad") =>
            /\ Len(last.ret.out) = Len(KernParamNames(kern))
            /\ \A i \in 1..Len(last.ret.out) :
                  \A n \in 1..Len(X) :
                     last.ret.out[i][n] = IF KernParamNames(kern)[i].wrt = "rho"
                                          THEN "pos" ELSE "zero"

\* the gradient of a fitted GP over a two-dimensional ARD kernel was taken
C7_Witness ==
    /\ last # None /\ last.op = "get_loglike" /\ last.args.grad /\ ~last.raised
    /\ Len(X) > 0 /\ ~kern.iso.some /\ kern.ndim.some = 2

(***************************************************************************)
(* C9.  In the empty state (ndata = 0, L and a None) get_loglike, sample   *)
(* and get_posterior complete without reading L or a, and get_posterior    *)
(* returns the prior mean mean(X) and the prior variance rho at every      *)
(* query point, with a zero variance gradient when grad is set.            *)
(***************************************************************************)
C9_EmptyStateQueries ==
    (last # None /\ last.op \in QueryOps /\ Len(X) = 0 /\ L = None /\ a = None) =>
        /\ ~last.raised
        /\ last.reads = {}
        /\ last.op = "get_posterior" =>
            /\ last.ret.mu = [prior |-> [n \in 1..Len(QueryBatch(kern)) |-> bias],
                              corr |-> None]
            /\ last.ret.s2 = [prior |-> [n \in 1..Len(QueryBatch(kern)) |->
                                            kern.rho.some * FixOne],
                              corr |-> None]
            /\ last.args.grad =>
                  last.ret.ds2 = [prior |-> zeros_like(QueryBatch(kern)), corr |-> None]

\* get_posterior(grad=True) was called on a newly constructed model
C9_Witness ==
    /\ last # None /\ last.op = "get_posterior" /\ last.args.grad
    /\ Len(X) = 0 /\ L = None /\ a = None

(***************************************************************************)
(* C10.  get_loglike, sample and get_posterior leave X, Y, ndata, L and a  *)
(* as they were; L and a change only in a call that runs _update or        *)
(* _updateinc.                                                             *)
(***************************************************************************)
C10_QueriesFrame ==
    [][/\ last'.op \in QueryOps => (X' = X /\ Y' = Y /\ L' = L /\ a' = a)
       /\ (L' # L \/ a' # a) => last'.args.via \in {"_update", "_updateinc"}]_vars

\* sample was called on a fitted model
C10_Witness ==
    last # None /\ last.op = "sample" /\ Len(X) > 0 /\ L # None /\ ~last.raised

\* the rescaled distance of the pair of points of the last kernel call
KresD == dist(rescale(kobj.obj.ell.some, kres.X1), rescale(kobj.obj.ell.some, kres.X2))[1][1]
\* the lengthscale-derivative entries get_grad yielded, for that pair
KresEllEntries == {kres.out[i].val[1][1] : i \in 2..Len(kres.out)}
\* the coordinate-derivative entries get_gradx returned, for that pair
KresGradxEntries == {kres.out[1][1][i] : i \in 1..Len(kres.out[1][1])}

(***************************************************************************)
(* C5.  Matern construction fails for every d outside {1, 3, 5}, before    *)
(* any parameter is registered or any of _d, _iso, ndim is set; for d in   *)
(* {1, 3, 5} it succeeds and fixes one mode: isotropic (_iso true, a       *)
(* scalar ell, ndim as given) when ndim is given, ARD (_iso false, ndim    *)
(* the size of ell) when ndim is omitted.                                  *)
(***************************************************************************)
C5_MaternConstruction ==
    kobj # None =>
        LET o == kobj.obj
        IN  /\ o.raised <=> kobj.d \notin {1, 3, 5}
            /\ o.raised =>
                    /\ o.params = <<>>
                    /\ o.d = None /\ o.iso = None /\ o.ndim = None
            /\ ~o.raised =>
                    /\ o.d = Some(kobj.d)
                    /\ [i \in 1..Len(o.params) |-> o.params[i].name] = <<"rho", "ell">>
                    /\ IF kobj.ndim # None
                       THEN /\ o.iso = Some(TRUE)
                            /\ o.params[2].size = 1
                            /\ o.ndim = kobj.ndim
                       ELSE /\ o.iso = Some(FALSE)
                            /\ o.params[2].size = Len(kobj.ell)
                            /\ o.ndim = Some(Len(kobj.ell))

\* Matern(rho, ell, d=2) was rejected
C5_Witness == kobj # None /\ kobj.d = 2 /\ kobj.obj.raised

(***************************************************************************)
(* C8, as claimed.  For every pair of points at rescaled distance          *)
(* D < 1e-12, isotropic or ARD, every lengthscale-derivative entry of      *)
(* get_grad and every entry of get_gradx is exactly 0.                     *)
(***************************************************************************)
C8_Original ==
    (kres # None /\ kres.op \in {"get_grad", "get_gradx"} /\ DBelowEps(KresD)) =>
        IF kres.op = "get_grad"
        THEN KresEllEntries = {"zero"}
        ELSE KresGradxEntries = {"zero"}

(***************************************************************************)
(* C8, amended.  For every pair of points at rescaled distance D < 1e-12:  *)
(* every entry of get_gradx and every ARD lengthscale-derivative entry of  *)
(* get_grad is exactly 0; the isotropic lengthscale-derivative entry of    *)
(* get_grad is exactly 0 when D = 0 and is neither NaN nor infinite when   *)
(* 0 < D < 1e-12 (it is the unclamped M * D / ell).                        *)
(***************************************************************************)
C8_NearDuplicates ==
    (kres # None /\ kres.op \in {"get_grad", "get_gradx"} /\ DBelowEps(KresD)) =>
        IF kres.op = "get_gradx" THEN KresGradxEntries = {"zero"}
        ELSE IF ~kobj.obj.iso.some THEN KresEllEntries = {"zero"}
        ELSE IF DClass(KresD) = "zero" THEN KresEllEntries = {"zero"}
        ELSE KresEllEntries \cap {"nan", "inf", "ninf"} = {}

\* an ARD get_grad on two distinct points closer than 1e-12
C8_Witness ==
    /\ kres # None /\ kres.op = "get_grad" /\ ~kobj.obj.iso.some
    /\ DBelowEps(KresD) /\ DClass(KresD) = "pos"

====
